---- MODULE Spec2Model ----
(***************************************************************************)
(* Model of the lazy-shrink-tree generator engine (hh3_lazy_tree.rs), its  *)
(* splitting random source (random.rs) and the harness that forces trees   *)
(* (main.rs).                                                              *)
(*                                                                         *)
(* A lazy Tree is modelled by the environment its `children` closure       *)
(* captures, and Children(t) is what calling that closure computes.  A Gen *)
(* is modelled by the environment its `run` closure captures, and          *)
(* GenRun(g, r, s) is what calling it computes.                            *)
(*                                                                         *)
(* Machine integers are scaled down (TLC integers are 32 bit): u64 is      *)
(* U64Bits wide and u128 twice that.  Arithmetic that Rust checks for      *)
(* overflow only in builds with overflow checks panics when debug_build    *)
(* holds and wraps otherwise.                                              *)
(***************************************************************************)
EXTENDS Integers, Sequences, FiniteSets, TLC

VARIABLES
    debug_build,   \* TRUE: debug assertions and overflow checks are compiled in
    gen,           \* the generator the harness runs
    rand,          \* the harness's Random
    size,          \* the size handed to the generator
    tree,          \* the root tree the generator returned
    here,          \* the node the harness has descended to
    trail,         \* the child indices taken from tree to here
    query,         \* the last path looked up from here
    closest,       \* what get_path_or_closest returned for it
    started,       \* the Chooser of a closure run as Chooser::new built it
    chooser,       \* that Chooser after the Chooser::of calls made so far
    calls,         \* per call: the generator given, the Chooser's Random
                   \* before the call and the value returned
    r1,            \* a Random that is split repeatedly (random.rs, doc of split)
    splits,        \* per split of r1: r1 before and after, and the child
    nest,          \* how many splits made the Random r1 started as
    nondets,       \* nondet.rs: the option lists a combine closure extracts from
    w,             \* the Witness of NonDet::combine
    results,       \* the results NonDet::combine has collected
    pc             \* where NonDet::combine is

treeVars == <<debug_build, gen, rand, size, tree, here, trail, query, closest,
              started, chooser, calls>>
splitVars == <<r1, splits, nest>>
nondetVars == <<nondets, w, results, pc>>

vars == <<treeVars, splitVars, nondetVars>>

\* ---------------------------------------------------------------- widths
U64Bits == 4
U128Bits == 2 * U64Bits

RECURSIVE Pow2(_)
Pow2(n) == IF n = 0 THEN 1 ELSE 2 * Pow2(n - 1)

U64Mod == Pow2(U64Bits)
U128Mod == Pow2(U128Bits)

\* the one element of a singleton set.  TLC evaluates a LET definition again
\* at every use, so a value that is used more than once is bound as the
\* element of a singleton instead: The({e(x) : x \in {v}}) is `let x = v; e(x)`
The(S) == CHOOSE x \in S : TRUE

\* ------------------------------------------------- oorandom::Rand64 (PCG)
\* low bits of the PCG multiplier and of the default increment
PcgMultiplier == 69
PcgDefaultInc == 79
\* number of state bits that select the output rotation
PcgRotBits == 2

RECURSIVE BitXor(_, _)
BitXor(a, b) ==
    IF a = 0 THEN b
    ELSE IF b = 0 THEN a
    ELSE (((a % 2) + (b % 2)) % 2) + 2 * BitXor(a \div 2, b \div 2)

\* u64::rotate_right on a U64Bits wide word
RotateRight(x, n) ==
    LET k == n % U64Bits
    IN  (x \div Pow2(k)) + (x % Pow2(k)) * Pow2(U64Bits - k)

\* Rand64::from_state
from_state(state, inc) == [state |-> state, inc |-> inc]

\* Rand64::rand_u64: advance the LCG, output a permutation of the old state
rand_u64(rng) ==
    LET oldstate == rng.state
        rot == oldstate \div Pow2(U128Bits - PcgRotBits)
        xsl == BitXor(oldstate \div U64Mod, oldstate % U64Mod)
    IN  [rng   |-> [rng EXCEPT !.state = (oldstate * PcgMultiplier + rng.inc) % U128Mod],
         value |-> RotateRight(xsl, rot)]

\* Rand64::new(seed) = new_inc(seed, DEFAULT_INC)
Rand64New(seed) ==
    The({rand_u64([rng1 EXCEPT !.state = (rng1.state + seed) % U128Mod]).rng :
            rng1 \in {rand_u64([state |-> 0,
                                inc |-> (2 * PcgDefaultInc + 1) % U128Mod]).rng}})

\* the rejection loop of Rand64::rand_range
RECURSIVE RangeLoop(_, _, _, _)
RangeLoop(rng, m, s, threshold) ==
    IF m % U64Mod < threshold
    THEN The({RangeLoop(d.rng, d.value * s, s, threshold) : d \in {rand_u64(rng)}})
    ELSE [rng |-> rng, m |-> m]

\* Rand64::rand_range(start..end), the debug assertion first
rand_range(rng, start, end) ==
    IF debug_build /\ ~(start < end)
    THEN [ok |-> FALSE, rng |-> rng, value |-> 0]
    ELSE The({
        The({IF debug_build /\ (l.m \div U64Mod) + start >= U64Mod
             THEN [ok |-> FALSE, rng |-> l.rng, value |-> 0]
             ELSE [ok |-> TRUE, rng |-> l.rng,
                   value |-> ((l.m \div U64Mod) + start) % U64Mod] :
                l \in {LET s == (end - start + U64Mod) % U64Mod
                       IN  IF (d.value * s) % U64Mod < s
                           THEN RangeLoop(d.rng, d.value * s, s,
                                          ((U64Mod - s) % U64Mod) % s)
                           ELSE [rng |-> d.rng, m |-> d.value * s]}}) :
            d \in {rand_u64(rng)}})

\* ------------------------------------------------------------- random.rs
\* Random::new_from_seed
new_from_seed(seed) == Rand64New(seed)

\* u64_range drawing from start..=end
u64_range_inclusive(r, start, end) == rand_range(r, start, end + 1)

\* Random::u64_range
u64_range(r, start, end) == rand_range(r, start, end)

\* Random::split: the child gets the parent's old state perturbed by the
\* parent's next output, and the parent's increment plus two
split(r) ==
    The({LET state  == r.state
             inc    == r.inc
             growth == d.value
         IN  IF debug_build /\ (state + growth >= U128Mod \/ inc + 2 >= U128Mod)
             THEN [ok |-> FALSE, self |-> d.rng, child |-> d.rng]
             ELSE [ok |-> TRUE, self |-> d.rng,
                   child |-> from_state((state + growth) % U128Mod,
                                        (inc + 2) % U128Mod)] :
            d \in {rand_u64(r)}})

\* ------------------------------------------------------ hh3_lazy_tree.rs
\* what a panicking construction leaves instead of a Tree
PanicTree == [kind |-> "panic"]

IsPanic(t) == t.kind = "panic"

\* TreePath::empty
EmptyPath == << >>

\* Gen values: the environment captured by the run closure
GenU64(start, end) == [kind |-> "u64", start |-> start, end |-> end]
GenCombine(f) == [kind |-> "combine", f |-> f]

\* u64 arithmetic: panics on overflow in a build that checks it, wraps otherwise
CheckedU64(x) == [ok |-> ~debug_build \/ (x >= 0 /\ x < U64Mod),
                  v  |-> (x + U64Mod) % U64Mod]

\* `as usize` / `as u64` on a target where usize is as wide as u64
AsUsize(x) == x % U64Mod
AsU64(x) == x % U64Mod

\* Gen::shrink_u64: the node and the environment of its children closure
shrink_u64(start, end, value) ==
    LET v0 == CheckedU64(value - start)
    IN  IF ~v0.ok THEN PanicTree
        ELSE [kind |-> "u64", start |-> start, end |-> end,
              value |-> value, v0 |-> v0.v]

\* shrink_u64 offering the decrement before the midpoint
shrink_u64_children_swapped(t) ==
    LET mid == CheckedU64(t.start + t.v0 \div 2)
        dec == CheckedU64(t.value - 1)
    IN  IF t.v0 > 4
        THEN <<shrink_u64(t.start, t.end, dec.v), shrink_u64(t.start, t.end, mid.v)>>
        ELSE IF t.v0 > 0
        THEN <<shrink_u64(t.start, t.end, dec.v)>>
        ELSE << >>

\* shrink_u64 offering the midpoint from a distance of 4 already
shrink_u64_children_early(t) ==
    LET mid == CheckedU64(t.start + t.v0 \div 2)
        dec == CheckedU64(t.value - 1)
    IN  IF t.v0 >= 4
        THEN <<shrink_u64(t.start, t.end, mid.v), shrink_u64(t.start, t.end, dec.v)>>
        ELSE IF t.v0 > 0
        THEN <<shrink_u64(t.start, t.end, dec.v)>>
        ELSE << >>

\* the children closure of shrink_u64
shrink_u64_children(t) ==
    LET mid == CheckedU64(t.start + t.v0 \div 2)
        dec == CheckedU64(t.value - 1)
    IN  IF t.v0 > 4
        THEN IF ~mid.ok \/ ~dec.ok THEN <<PanicTree>>
             ELSE <<shrink_u64(t.start, t.end, mid.v),
                    shrink_u64(t.start, t.end, dec.v)>>
        ELSE IF t.v0 > 0
        THEN IF ~dec.ok THEN <<PanicTree>>
             ELSE <<shrink_u64(t.start, t.end, dec.v)>>
        ELSE << >>

\* Chooser::new given a fresh split of the Random instead of the Random
ChooserNewFromSplit(r, s, gen_paths) ==
    [rand |-> split(r).child, size |-> s, gen_paths |-> gen_paths,
     gen_child_count |-> << >>]

\* Chooser::new
ChooserNew(r, s, gen_paths) ==
    [rand |-> r, size |-> s, gen_paths |-> gen_paths, gen_child_count |-> << >>]

\* the result of a Chooser::of call or of a closure run that panicked
Unwound(c) == [ok |-> FALSE, c |-> c, value |-> 0]

RECURSIVE GenRun(_, _, _)
RECURSIVE combine_go(_, _, _, _)
RECURSIVE children_clo(_, _, _, _)
RECURSIVE Children(_)
RECURSIVE get_path_go(_, _, _)
RECURSIVE of(_, _)
RECURSIVE RunClosure(_, _)
RECURSIVE vec_loop(_, _, _, _)

\* (*tree.children)(): the list of children, or a panic while building it
Children(t) ==
    The({[ok   |-> \A i \in DOMAIN list : ~IsPanic(list[i]),
          list |-> list] :
            list \in {IF t.kind = "u64" THEN shrink_u64_children(t)
                      ELSE children_clo(t, 0, 0, << >>)}})

\* get_path_or_closest skipping an out-of-range index
get_path_go_skip(t, path, k) ==
    IF k >= Len(path) THEN t
    ELSE The({IF ~children.ok THEN PanicTree
              ELSE IF path[k + 1] < Len(children.list)
                   THEN get_path_go(children.list[path[k + 1] + 1], path, k + 1)
                   ELSE get_path_go(t, path, k + 1) :
                 children \in {Children(t)}})

\* Tree::get_path_or_closest, from position k (0-based) of the path
get_path_go(t, path, k) ==
    IF k >= Len(path) THEN t
    ELSE The({IF ~children.ok THEN PanicTree
              ELSE IF path[k + 1] < Len(children.list)
                   THEN get_path_go(children.list[path[k + 1] + 1], path, k + 1)
                   ELSE t :
                 children \in {Children(t)}})

get_path_or_closest(t, path) == get_path_go(t, path, 0)

\* Chooser::of leaving the Chooser's Random as it was
of_record_stale(c, child_rand, shrunk) ==
    IF IsPanic(shrunk) THEN Unwound(c)
    ELSE The({IF ~children.ok THEN Unwound(c)
              ELSE [ok |-> TRUE,
                    c  |-> [c EXCEPT !.gen_child_count = Append(@, Len(children.list))],
                    value |-> shrunk.value] :
                 children \in {Children(shrunk)}})

\* the tail of Chooser::of: force the selected node's children, record their
\* number and return the node's value
of_record(c, child_rand, shrunk) ==
    IF IsPanic(shrunk) THEN Unwound(c)
    ELSE The({IF ~children.ok THEN Unwound(c)
              ELSE [ok |-> TRUE,
                    c  |-> [c EXCEPT !.rand = child_rand.self,
                                     !.gen_child_count = Append(@, Len(children.list))],
                    value |-> shrunk.value] :
                 children \in {Children(shrunk)}})

\* the middle of Chooser::of: select the node the call-site's path addresses
of_select(c, child_rand, t) ==
    IF IsPanic(t) THEN Unwound(c)
    ELSE LET ix == Len(c.gen_child_count)
         IN  The({of_record(c, child_rand, shrunk) :
                     shrunk \in {IF ix < Len(c.gen_paths)
                                 THEN get_path_or_closest(t, c.gen_paths[ix + 1])
                                 ELSE t}})

\* Chooser::of
of(c, g) ==
    The({IF ~child_rand.ok THEN Unwound(c)
         ELSE The({of_select(c, child_rand, t) :
                      t \in {GenRun(g, child_rand.child, c.size)}}) :
            child_rand \in {split(c.rand)}})

\* Gen::usize, Gen::choose, Gen::vec and Date::gen are Gen::combine of a
\* closure; the closure is named by `fn` and carries what it captures
GenUsize(start, end) == GenCombine([fn |-> "usize", start |-> start, end |-> end])
GenChoose(v) == GenCombine([fn |-> "choose", v |-> v])
GenVec(self, gen_len) == GenCombine([fn |-> "vec", self |-> self, gen_len |-> gen_len])
DateGen(years, months, days) ==
    GenCombine([fn |-> "date", years |-> years, months |-> months, days |-> days])
\* a closure whose second range depends on the first extracted value:
\*   |c| { let n = c.of(Gen::u64(0..end)); let m = c.of(Gen::u64(0..n+1)); (n, m) }
GenDependent(end) == GenCombine([fn |-> "dependent", end |-> end])

\* the closure of Gen::usize
usize_clo(f, c) ==
    The({IF ~o.ok THEN Unwound(o.c)
         ELSE [ok |-> TRUE, c |-> o.c, value |-> AsUsize(o.value)] :
            o \in {of(c, GenU64(AsU64(f.start), AsU64(f.end)))}})

\* Gen::choose indexing the vector from its end
choose_clo_from_end(f, c) ==
    The({IF ~o.ok THEN Unwound(o.c)
         ELSE IF o.value >= Len(f.v) THEN Unwound(o.c)
         ELSE [ok |-> TRUE, c |-> o.c, value |-> f.v[Len(f.v) - o.value]] :
            o \in {of(c, GenUsize(0, Len(f.v)))}})

\* the closure of Gen::choose; v[ix] panics out of bounds
choose_clo(f, c) ==
    The({IF ~o.ok THEN Unwound(o.c)
         ELSE IF o.value >= Len(f.v) THEN Unwound(o.c)
         ELSE [ok |-> TRUE, c |-> o.c, value |-> f.v[o.value + 1]] :
            o \in {of(c, GenUsize(0, Len(f.v)))}})

\* the loop of Gen::vec inserting each element at the front of the vector
RECURSIVE vec_loop_prepend(_, _, _, _)
vec_loop_prepend(f, c, left, vec) ==
    IF left = 0 THEN [ok |-> TRUE, c |-> c, value |-> vec]
    ELSE The({IF ~o.ok THEN Unwound(o.c)
              ELSE vec_loop_prepend(f, o.c, left - 1, <<o.value>> \o vec) :
                 o \in {of(c, f.self)}})

\* the for loop of the closure of Gen::vec, `left` pushes to go
vec_loop(f, c, left, vec) ==
    IF left = 0 THEN [ok |-> TRUE, c |-> c, value |-> vec]
    ELSE The({IF ~o.ok THEN Unwound(o.c)
              ELSE vec_loop(f, o.c, left - 1, Append(vec, o.value)) :
                 o \in {of(c, f.self)}})

\* the closure of Gen::vec
vec_clo(f, c) ==
    The({IF ~len.ok THEN Unwound(len.c)
         ELSE vec_loop(f, len.c, len.value, << >>) :
            len \in {of(c, f.gen_len)}})

\* the closure of Date::gen
date_clo(f, c) ==
    The({IF ~year.ok THEN Unwound(year.c)
         ELSE The({IF ~month.ok THEN Unwound(month.c)
                   ELSE The({IF ~day.ok THEN Unwound(day.c)
                             ELSE [ok |-> TRUE, c |-> day.c,
                                   value |-> [year  |-> year.value,
                                              month |-> month.value,
                                              day   |-> day.value]] :
                                day \in {of(month.c, GenU64(0, f.days))}}) :
                      month \in {of(year.c, GenU64(0, f.months))}}) :
            year \in {of(c, GenU64(0, f.years))}})

\* the data-dependent closure
dependent_clo(f, c) ==
    The({IF ~n.ok THEN Unwound(n.c)
         ELSE IF ~CheckedU64(n.value + 1).ok THEN Unwound(n.c)
         ELSE The({IF ~m.ok THEN Unwound(m.c)
                   ELSE [ok |-> TRUE, c |-> m.c, value |-> <<n.value, m.value>>] :
                      m \in {of(n.c, GenU64(0, CheckedU64(n.value + 1).v))}}) :
            n \in {of(c, GenU64(0, f.end))}})

\* f(&mut c)
RunClosure(f, c) ==
    CASE f.fn = "usize"     -> usize_clo(f, c)
      [] f.fn = "choose"    -> choose_clo(f, c)
      [] f.fn = "vec"       -> vec_clo(f, c)
      [] f.fn = "date"      -> date_clo(f, c)
      [] f.fn = "dependent" -> dependent_clo(f, c)

\* the padding loop stopping one entry early
RECURSIVE pad_paths_short(_, _)
pad_paths_short(paths, gen_count) ==
    IF Len(paths) + 1 < gen_count
    THEN The({pad_paths_short(padded, gen_count) : padded \in {Append(paths, EmptyPath)}})
    ELSE paths

\* the while loop of combine_go: an empty shrink path for each generator
RECURSIVE pad_paths(_, _)
pad_paths(paths, gen_count) ==
    IF Len(paths) < gen_count
    THEN The({pad_paths(padded, gen_count) : padded \in {Append(paths, EmptyPath)}})
    ELSE paths

\* Gen::combine_go: run the closure, then capture what children_clo needs
combine_go(f, r, s, paths) ==
    The({IF ~run.ok THEN PanicTree
         ELSE [kind  |-> "combine", f |-> f, r |-> r, s |-> s,
               paths |-> pad_paths(paths, Len(run.c.gen_child_count)),
               gen_child_count |-> run.c.gen_child_count,
               value |-> run.value] :
            run \in {RunClosure(f, ChooserNew(r, s, paths))}})

\* children_clo replacing the shrink path by the option instead of extending it
children_clo_replace(t, gen_ix, child_ix, children) ==
    IF gen_ix >= Len(t.gen_child_count) THEN children
    ELSE IF child_ix >= t.gen_child_count[gen_ix + 1]
    THEN children_clo(t, gen_ix + 1, 0, children)
    ELSE IF gen_ix >= Len(t.paths) THEN Append(children, PanicTree)
    ELSE The({IF IsPanic(child) THEN Append(children, PanicTree)
              ELSE children_clo(t, gen_ix, child_ix + 1, Append(children, child)) :
                 child \in {combine_go(t.f, t.r, t.s,
                                       [t.paths EXCEPT ![gen_ix + 1] = <<child_ix>>])}})

\* the children closure of combine_go, at generator gen_ix and shrink option
\* child_ix (both 0-based), with the children pushed so far
children_clo(t, gen_ix, child_ix, children) ==
    IF gen_ix >= Len(t.gen_child_count) THEN children
    ELSE IF child_ix >= t.gen_child_count[gen_ix + 1]
    THEN children_clo(t, gen_ix + 1, 0, children)
    ELSE IF gen_ix >= Len(t.paths) THEN Append(children, PanicTree)
    ELSE The({IF IsPanic(child) THEN Append(children, PanicTree)
              ELSE children_clo(t, gen_ix, child_ix + 1, Append(children, child)) :
                 child \in {combine_go(t.f, t.r, t.s,
                                       [t.paths EXCEPT ![gen_ix + 1] = Append(@, child_ix)])}})

\* (*gen.run)(r, s) for Gen::u64 and for Gen::combine
GenRun(g, r, s) ==
    IF g.kind = "u64"
    THEN The({IF ~d.ok THEN PanicTree ELSE shrink_u64(g.start, g.end, d.value) :
                 d \in {u64_range(r, g.start, g.end)}})
    ELSE combine_go(g.f, r, s, << >>)

\* ----------------------------------------------------------------- bounds
MaxSeed == 1       \* seeds 0..MaxSeed
MaxSize == 0       \* sizes 0..MaxSize
MaxStart == 1      \* range starts 0..MaxStart
MaxEnd == 8        \* range ends up to MaxEnd
MaxLen == 3        \* vector lengths below MaxLen
MaxChoices == 6    \* Gen::choose on up to MaxChoices values
MaxPathLen == 2    \* looked-up paths of up to MaxPathLen indices
MaxIndex == 1      \* with indices 0..MaxIndex
MaxCalls == 2      \* Chooser::of calls in one closure run
MaxBeginDepth == 1 \* closure runs are followed for nodes at most this deep
MaxDepth == 11     \* the harness descends at most MaxDepth levels
MaxLookupDepth == 0  \* and looks paths up from nodes at most this deep

Seeds == 0 .. MaxSeed
Sizes == 0 .. MaxSize

\* the values Gen::choose picks from: 10, 20, ...
Choices(n) == [i \in 1 .. n |-> 10 * i]

U64Gens == {GenU64(start, end) : start \in 0 .. MaxStart, end \in 1 .. MaxEnd}
           \ {GenU64(start, end) : start \in 0 .. MaxStart, end \in 0 .. MaxStart}
UsizeGens == {GenUsize(0, end) : end \in {MaxLen, MaxEnd}}
ChooseGens == {GenChoose(Choices(n)) : n \in 1 .. MaxChoices}
VecGens == {GenVec(GenU64(start, 5), GenUsize(0, MaxLen)) : start \in {0, 1}}
           \cup {GenVec(GenUsize(0, 3), GenUsize(0, MaxLen))}
DateGens == {DateGen(3, 2, 2), GenVec(DateGen(3, 2, 2), GenUsize(0, 2))}
DependentGens == {GenDependent(6)}

Gens == U64Gens \cup UsizeGens \cup ChooseGens \cup VecGens \cup DateGens
        \cup DependentGens

RECURSIVE PathsUpTo(_)
PathsUpTo(n) ==
    IF n = 0 THEN {<< >>}
    ELSE LET shorter == PathsUpTo(n - 1)
         IN  shorter \cup {Append(p, i) : p \in shorter, i \in 0 .. MaxIndex}

Paths == PathsUpTo(MaxPathLen)

\* the Chooser variables while no closure runs: no Random has an even increment
NoChooser == [rand |-> from_state(0, 0), size |-> 0, gen_paths |-> << >>,
              gen_child_count |-> << >>]

\* ---------------------------------------------------------------- harness
\* the tree variables before the generator has run
NoTree == [kind |-> "none"]

IsNode(t) == t.kind \in {"u64", "combine"}

\* the variables of the split harness while it is not used
SplitIdle ==
    /\ r1 = new_from_seed(0)
    /\ splits = << >>
    /\ nest = 0

\* the variables of NonDet::combine while it is not used
NonDetIdle ==
    /\ nondets = << >>
    /\ w = [indices |-> << >>, num_choices |-> << >>]
    /\ results = << >>
    /\ pc = "idle"

\* main: let rand = Random::new_from_seed(..); let size = ..;
Init ==
    /\ debug_build \in BOOLEAN
    /\ gen \in Gens
    /\ size \in Sizes
    /\ \E seed \in Seeds : rand = new_from_seed(seed)
    /\ tree = NoTree
    /\ here = NoTree
    /\ trail = << >>
    /\ query = << >>
    /\ closest = NoTree
    /\ started = NoChooser
    /\ chooser = NoChooser
    /\ calls = << >>
    /\ SplitIdle
    /\ NonDetIdle

\* main: let tree = (*gen.run)(rand, size)
Generate ==
    /\ tree = NoTree
    /\ tree' = GenRun(gen, rand, size)
    /\ here' = tree'
    /\ trail' = << >>
    /\ query' = << >>
    /\ closest' = tree'
    /\ UNCHANGED <<debug_build, gen, rand, size, started, chooser, calls>>
    /\ UNCHANGED <<splitVars, nondetVars>>

\* main's loop: the same generator run from another seed
Regenerate(seed) ==
    /\ IsNode(tree)
    /\ query = << >>
    /\ rand' = new_from_seed(seed)
    /\ rand' # rand
    /\ tree' = GenRun(gen, rand', size)
    /\ here' = tree'
    /\ trail' = << >>
    /\ query' = << >>
    /\ closest' = tree'
    /\ UNCHANGED <<debug_build, gen, size, started, chooser, calls>>
    /\ UNCHANGED <<splitVars, nondetVars>>

\* force_to_depth_go: force the children of here and go down to one of them
Descend ==
    /\ IsNode(here)
    /\ query = << >>
    /\ Len(trail) < MaxDepth
    /\ \E children \in {Children(here)} :
           \E i \in DOMAIN children.list :
               /\ here' = children.list[i]
               /\ trail' = Append(trail, i - 1)
    /\ query' = << >>
    /\ closest' = here'
    /\ UNCHANGED <<debug_build, gen, rand, size, tree, started, chooser, calls>>
    /\ UNCHANGED <<splitVars, nondetVars>>

\* Tree::get_path_or_closest called on here
Lookup(path) ==
    /\ IsNode(here)
    /\ query = << >>
    /\ Len(trail) <= MaxLookupDepth
    /\ path # << >>
    /\ query' = path
    /\ closest' = get_path_or_closest(here, path)
    /\ UNCHANGED <<debug_build, gen, rand, size, tree, here, trail, started, chooser, calls>>
    /\ UNCHANGED <<splitVars, nondetVars>>

Next ==
    \/ Generate
    \/ \E seed \in Seeds : Regenerate(seed)
    \/ Descend
    \/ \E path \in Paths : Lookup(path)

Spec == Init /\ [][Next]_vars

\* ---------------------------------------------------- one closure run
\* the generators a closure hands to Chooser::of
SubGens == {GenU64(1, MaxEnd), GenUsize(0, MaxLen)}

\* Gen::combine: combine_go(f, r, s, Vec::new()) builds its Chooser
BeginRoot ==
    /\ gen.kind = "combine"
    /\ tree = NoTree
    /\ started = NoChooser
    /\ started' = ChooserNew(rand, size, << >>)
    /\ chooser' = started'
    /\ calls' = << >>
    /\ UNCHANGED <<debug_build, gen, rand, size, tree, here, trail, query, closest>>
    /\ UNCHANGED <<splitVars, nondetVars>>

\* the children closure of here: combine_go(f, r, s, paths_copy) builds its
\* Chooser for shrink option child_ix of generator gen_ix (1-based here)
BeginChild(gen_ix, child_ix) ==
    /\ here.kind = "combine"
    /\ query = << >>
    /\ started = NoChooser
    /\ gen_ix \in DOMAIN here.gen_child_count
    /\ child_ix < here.gen_child_count[gen_ix]
    /\ started' = ChooserNew(here.r, here.s,
                             [here.paths EXCEPT ![gen_ix] = Append(@, child_ix)])
    /\ chooser' = started'
    /\ calls' = << >>
    /\ UNCHANGED <<debug_build, gen, rand, size, tree, here, trail, query, closest>>
    /\ UNCHANGED <<splitVars, nondetVars>>

\* the closure calls c.of(g); a panic ends the program
Extract(g) ==
    /\ started # NoChooser
    /\ ~IsPanic(tree)
    /\ Len(calls) < MaxCalls
    /\ \E o \in {of(chooser, g)} :
           IF o.ok
           THEN /\ chooser' = o.c
                /\ calls' = Append(calls, [gen |-> g, rand |-> chooser.rand,
                                           value |-> o.value])
                /\ UNCHANGED <<tree, here>>
           ELSE /\ tree' = PanicTree
                /\ here' = PanicTree
                /\ UNCHANGED <<chooser, calls>>
    /\ UNCHANGED <<debug_build, gen, rand, size, trail, query, closest, started>>
    /\ UNCHANGED <<splitVars, nondetVars>>

NextChooser ==
    \/ Generate
    \/ Descend /\ Len(trail) < MaxBeginDepth
    \/ BeginRoot
    \/ \E gen_ix \in 1 .. MaxLen, child_ix \in 0 .. 1 : BeginChild(gen_ix, child_ix)
    \/ \E g \in SubGens : Extract(g)

SpecChooser == Init /\ [][NextChooser]_vars

\* ------------------------------------------- empty and inverted ranges
MaxDegenerate == 3 \* empty and inverted ranges start at 0..MaxDegenerate

\* Gen::u64(lo..hi) with lo >= hi, Gen::usize(0..0), Gen::choose(vec![])
DegenerateGens ==
    {g \in {GenU64(start, end) : start \in 0 .. MaxDegenerate,
                                 end \in 0 .. MaxDegenerate} : g.start >= g.end}
    \cup {GenUsize(0, 0), GenChoose(<< >>)}

\* main with a generator over an empty or inverted range
InitDegenerate ==
    /\ debug_build \in BOOLEAN
    /\ gen \in DegenerateGens
    /\ size \in Sizes
    /\ \E seed \in Seeds : rand = new_from_seed(seed)
    /\ tree = NoTree
    /\ here = NoTree
    /\ trail = << >>
    /\ query = << >>
    /\ closest = NoTree
    /\ started = NoChooser
    /\ chooser = NoChooser
    /\ calls = << >>
    /\ SplitIdle
    /\ NonDetIdle

SpecDegenerate == InitDegenerate /\ [][Next]_vars

\* ------------------------------------------------------ repeated splits
MaxSplitSeed == 15 \* the split harness seeds its Random with 0..MaxSplitSeed
MaxSplits == 4     \* splits of one Random
MaxNest == 2       \* how often a child becomes the Random that is split

\* the tree harness at rest
TreeIdle ==
    /\ gen = GenU64(0, 1)
    /\ rand = new_from_seed(0)
    /\ size = 0
    /\ tree = NoTree
    /\ here = NoTree
    /\ trail = << >>
    /\ query = << >>
    /\ closest = NoTree
    /\ started = NoChooser
    /\ chooser = NoChooser
    /\ calls = << >>

\* Random::new_from_seed(seed), and Random::new(Rand64::from_state((state, inc)))
\* for the state with only bit U64Bits set and the odd increment that makes
\* the next state state + 1
SplitSources ==
    {new_from_seed(seed) : seed \in 0 .. MaxSplitSeed}
    \cup {from_state(U64Mod, (U64Mod + 1 + (U128Mod - U64Mod) * PcgMultiplier)
                             % U128Mod)}

InitSplit ==
    /\ debug_build \in BOOLEAN
    /\ TreeIdle
    /\ r1 \in SplitSources
    /\ splits = << >>
    /\ nest = 0
    /\ NonDetIdle

\* let child = r1.split(); a panic ends the program
SplitAgain ==
    /\ Len(splits) < MaxSplits
    /\ \A i \in DOMAIN splits : splits[i].ok
    /\ \E sp \in {split(r1)} :
           /\ r1' = (IF sp.ok THEN sp.self ELSE r1)
           /\ splits' = Append(splits, [before |-> r1, ok |-> sp.ok,
                                        after |-> sp.self, child |-> sp.child])
    /\ UNCHANGED <<nest, treeVars, nondetVars>>

\* the i-th child is split in turn
SplitChild(i) ==
    /\ i \in DOMAIN splits
    /\ splits[i].ok
    /\ nest < MaxNest
    /\ r1' = splits[i].child
    /\ splits' = << >>
    /\ nest' = nest + 1
    /\ UNCHANGED <<treeVars, nondetVars>>

NextSplit ==
    \/ SplitAgain
    \/ \E i \in 1 .. MaxSplits : SplitChild(i)

SpecSplit == InitSplit /\ [][NextSplit]_vars

\* -------------------------------------------------------------- nondet.rs
MaxExtractions == 3 \* Witness::of calls of the closure
MaxOptions == 3     \* options of one NonDet

\* NonEmpty::index; self.vec[ix - 1] panics out of bounds
NonEmptyIndex(ne, ix) ==
    IF ix = 0 THEN [ok |-> TRUE, value |-> ne.zero]
    ELSE IF ix - 1 < Len(ne.vec) THEN [ok |-> TRUE, value |-> ne.vec[ix]]
    ELSE [ok |-> FALSE, value |-> ne.zero]

\* NonEmpty::len
NonEmptyLen(ne) == Len(ne.vec) + 1

\* test::nondet(0, vec![1, .., n - 1])
NonDetOf(n) == [zero |-> 0, vec |-> [j \in 1 .. n - 1 |-> j]]

\* Witness::of; wit is the Witness, m the option list (*m.run)() returns
WitnessOf(wit, m) ==
    LET m_ix == Len(wit.num_choices)
        choice_ix == IF m_ix < Len(wit.indices) THEN wit.indices[m_ix + 1] ELSE 0
        chosen == NonEmptyIndex(m, choice_ix)
    IN  [ok |-> chosen.ok,
         w  |-> [wit EXCEPT !.num_choices = Append(@, NonEmptyLen(m))],
         value |-> chosen.value]

\* the closure |c| (c.of(m_1), .., c.of(m_k)) for the option lists ms
RECURSIVE RunExtractions(_, _, _)
RunExtractions(ms, wit, values) ==
    IF ms = << >> THEN [ok |-> TRUE, w |-> wit, value |-> values]
    ELSE LET o == WitnessOf(wit, Head(ms))
         IN  IF ~o.ok THEN [ok |-> FALSE, w |-> o.w, value |-> values]
             ELSE RunExtractions(Tail(ms), o.w, Append(values, o.value))

\* res.resize(n, 0)
RECURSIVE Resize(_, _)
Resize(q, n) ==
    IF Len(q) >= n THEN SubSeq(q, 1, n) ELSE Resize(Append(q, 0), n)

\* the loop of incr_choice_indices taking the positions in source order
RECURSIVE incr_loop_forward(_, _, _)
incr_loop_forward(res, num_choices, ix) ==
    IF ix >= Len(num_choices) THEN [some |-> FALSE, v |-> res]
    ELSE IF res[ix + 1] + 1 < num_choices[ix + 1]
    THEN [some |-> TRUE, v |-> [res EXCEPT ![ix + 1] = @ + 1]]
    ELSE incr_loop_forward([res EXCEPT ![ix + 1] = 0], num_choices, ix + 1)

\* the loop of incr_choice_indices, ix + 1 positions still to try from the end
RECURSIVE incr_loop(_, _, _)
incr_loop(res, num_choices, ix) ==
    IF ix < 0 THEN [some |-> FALSE, v |-> res]
    ELSE IF res[ix + 1] + 1 < num_choices[ix + 1]
    THEN [some |-> TRUE, v |-> [res EXCEPT ![ix + 1] = @ + 1]]
    ELSE incr_loop([res EXCEPT ![ix + 1] = 0], num_choices, ix - 1)

\* incr_choice_indices counting from the first position
incr_choice_indices_forward(indices, num_choices) ==
    incr_loop_forward(Resize(indices, Len(num_choices)), num_choices, 0)

\* NonDet::incr_choice_indices
incr_choice_indices(indices, num_choices) ==
    incr_loop(Resize(indices, Len(num_choices)), num_choices, Len(num_choices) - 1)

\* the closures the harness combines: every list of up to MaxExtractions
\* NonDets of up to MaxOptions options, and the one of test::ok
RECURSIVE NonDetLists(_)
NonDetLists(k) ==
    IF k = 0 THEN {<< >>}
    ELSE LET shorter == NonDetLists(k - 1)
         IN  shorter \cup {Append(ms, NonDetOf(n)) : ms \in shorter, n \in 1 .. MaxOptions}

TestOk == <<NonDetOf(4), NonDetOf(3), NonDetOf(2)>>

InitNonDet ==
    /\ debug_build \in BOOLEAN
    /\ TreeIdle
    /\ SplitIdle
    /\ nondets \in NonDetLists(MaxExtractions) \cup {TestOk}
    /\ w = [indices |-> << >>, num_choices |-> << >>]
    /\ results = << >>
    /\ pc = "start"

\* NonDet::combine: the run with an empty Witness gives results.zero
RunInitial ==
    /\ pc = "start"
    /\ \E o \in {RunExtractions(nondets, [indices |-> << >>, num_choices |-> << >>],
                                << >>)} :
           /\ w' = o.w
           /\ results' = <<o.value>>
           /\ pc' = (IF o.ok THEN "loop" ELSE "panic")
    /\ UNCHANGED <<nondets, treeVars, splitVars>>

\* one turn of the while loop: the next choice is run and its value pushed
RunNextChoice ==
    /\ pc = "loop"
    /\ \E next_choice \in {incr_choice_indices(w.indices, w.num_choices)} :
           /\ next_choice.some
           /\ \E o \in {RunExtractions(nondets, [indices |-> next_choice.v,
                                                 num_choices |-> << >>], << >>)} :
                  /\ w' = o.w
                  /\ results' = (IF o.ok THEN Append(results, o.value) ELSE results)
                  /\ pc' = (IF o.ok THEN "loop" ELSE "panic")
    /\ UNCHANGED <<nondets, treeVars, splitVars>>

\* incr_choice_indices returned None: the loop ends and results is returned
ReturnResults ==
    /\ pc = "loop"
    /\ ~incr_choice_indices(w.indices, w.num_choices).some
    /\ pc' = "done"
    /\ UNCHANGED <<nondets, w, results, treeVars, splitVars>>

NextNonDet == RunInitial \/ RunNextChoice \/ ReturnResults

SpecNonDet == InitNonDet /\ [][NextNonDet]_vars

\* ----------------------------------------------------------------- claims
\* the children values the integer shrink rule gives a value v over a range
\* starting at lo
ShrinkValues(lo, v) ==
    LET delta == v - lo
    IN  IF delta > 4 THEN <<lo + delta \div 2, v - 1>>
        ELSE IF delta > 0 THEN <<v - 1>>
        ELSE << >>

ChildValues(t) == LET list == Children(t).list IN [i \in DOMAIN list |-> list[i].value]

InRange(t) == t.start <= t.value /\ t.value < t.end

\* C1: a node of shrink_u64(lo..hi, v) with lo <= v < hi has value v and, with
\* delta = v - lo, the children lo + delta/2 then v - 1 when delta > 4, the one
\* child v - 1 when 0 < delta <= 4 and no child when delta = 0; its children
\* are nodes of shrink_u64 over the same range, so the rule holds of them too.
C1_ShrinkRule ==
    (here.kind = "u64" /\ InRange(here)) =>
        LET children == Children(here)
        IN  /\ children.ok
            /\ ChildValues(here) = ShrinkValues(here.start, here.value)
            /\ \A i \in DOMAIN children.list :
                   /\ children.list[i].kind = "u64"
                   /\ children.list[i].start = here.start
                   /\ children.list[i].end = here.end
                   /\ InRange(children.list[i])

\* a node below the root with two children, one with one and one with none
C1_Witness ==
    /\ here.kind = "u64"
    /\ InRange(here)
    /\ here.start > 0
    /\ here.value - here.start > 4
    /\ Len(trail) > 0
    /\ ChildValues(here) = <<here.start + (here.value - here.start) \div 2, here.value - 1>>

\* the node a path of valid indices leads to
RECURSIVE NodeAt(_, _)
NodeAt(t, path) ==
    IF path = << >> THEN t
    ELSE NodeAt(Children(t).list[Head(path) + 1], Tail(path))

\* the number of leading indices of the path that are in range, each at the
\* node the indices before it lead to
RECURSIVE ValidLen(_, _)
ValidLen(t, path) ==
    IF path = << >> THEN 0
    ELSE LET list == Children(t).list
         IN  IF Head(path) >= Len(list) THEN 0
             ELSE 1 + ValidLen(list[Head(path) + 1], Tail(path))

\* every index of the path is in range at its level
ValidPath(t, path) == ValidLen(t, path) = Len(path)

\* the longest prefix of the path that is valid
LongestValidPrefix(t, path) == SubSeq(path, 1, ValidLen(t, path))

\* C3: get_path_or_closest is total and returns the node addressed by the
\* longest prefix of the path whose every index is in range: the root for the
\* empty path, the addressed node for a valid path, and the node before the
\* first out-of-range index otherwise.
C3_ClosestIsLongestValidPrefix ==
    IsNode(here) =>
        LET prefix == LongestValidPrefix(here, query)
        IN  /\ IsNode(closest)
            /\ closest = NodeAt(here, prefix)
            /\ query = << >> => closest = here
            /\ prefix = query => closest = NodeAt(here, query)

\* an out-of-range index followed by one that would have been in range
C3_Witness ==
    /\ IsNode(here)
    /\ Len(query) >= 2
    /\ query[1] >= Len(Children(here).list)
    /\ query[2] < Len(Children(here).list)
    /\ closest = here

\* a path longer than the tree is deep, followed to a leaf
C3_WitnessDeep ==
    /\ IsNode(here)
    /\ Len(query) >= 2
    /\ ValidPath(here, SubSeq(query, 1, Len(query) - 1))
    /\ ~ValidPath(here, query)
    /\ closest # here
    /\ Children(closest).list = << >>

RECURSIVE SumSeq(_)
SumSeq(q) == IF q = << >> THEN 0 ELSE Head(q) + SumSeq(Tail(q))

\* the call-site i (1-based) and the shrink option j (0-based) of the k-th
\* child (0-based) when the children are enumerated call-site-major, counting
\* from call-site i
RECURSIVE SiteOf(_, _, _)
SiteOf(counts, i, k) ==
    IF k < counts[i] THEN <<i, k>> ELSE SiteOf(counts, i + 1, k - counts[i])

\* C4: a node built by combine_go(f, r, s, paths) whose run recorded the child
\* counts c_0..c_{n-1} has c_0 + ... + c_{n-1} children, call-site-major: the
\* child for call-site i and option j is combine_go(f, r, s, paths') with
\* paths' the padded paths whose entry i is extended by j.  A call-site with
\* count zero contributes nothing; the node is terminal exactly when every
\* count is zero.
C4_ChildrenCallSiteMajor ==
    here.kind = "combine" =>
        LET counts == here.gen_child_count
            children == Children(here)
        IN  /\ children.ok
            /\ Len(here.paths) >= Len(counts)
            /\ Len(children.list) = SumSeq(counts)
            /\ \A k \in 1 .. Len(children.list) :
                   LET ij == SiteOf(counts, 1, k - 1)
                   IN  children.list[k] =
                           combine_go(here.f, here.r, here.s,
                                      [here.paths EXCEPT ![ij[1]] = Append(@, ij[2])])
            /\ (children.list = << >>) <=> (\A i \in DOMAIN counts : counts[i] = 0)

\* a shrunk node with an exhausted call-site between two that still shrink
C4_Witness ==
    /\ here.kind = "combine"
    /\ Len(trail) >= 2
    /\ Len(here.gen_child_count) >= 3
    /\ here.gen_child_count[1] > 0
    /\ here.gen_child_count[2] = 0
    /\ here.gen_child_count[3] > 0
    /\ \E i \in DOMAIN here.paths : Len(here.paths[i]) >= 2
    /\ Len(Children(here).list) = here.gen_child_count[1] + here.gen_child_count[3]

Delta(t) == t.value - t.start

\* the number of steps the all-decrement path (always the last child) takes
\* from t to a node without children
RECURSIVE DecrementSteps(_)
DecrementSteps(t) ==
    LET list == Children(t).list
    IN  IF list = << >> THEN 0 ELSE 1 + DecrementSteps(list[Len(list)])

\* the node the all-decrement path from t ends at
RECURSIVE DecrementEnd(_)
DecrementEnd(t) ==
    LET list == Children(t).list
    IN  IF list = << >> THEN t ELSE DecrementEnd(list[Len(list)])

\* C6: every child of a node of shrink_u64(lo..hi, v) is strictly closer to lo
\* than its parent, and the all-decrement path from a node with delta = d
\* reaches a node with delta = 0 and no children after exactly d steps.
C6_ShrinkMonotone ==
    (here.kind = "u64" /\ InRange(here)) =>
        /\ \A i \in DOMAIN Children(here).list :
               /\ Delta(Children(here).list[i]) < Delta(here)
               /\ Delta(Children(here).list[i]) >= 0
        /\ DecrementSteps(here) = Delta(here)
        /\ Delta(DecrementEnd(here)) = 0

\* a root more than four above a non-zero lo: both kinds of child, a long path
C6_Witness ==
    /\ here.kind = "u64"
    /\ here = tree
    /\ here.start > 0
    /\ Delta(here) > 4
    /\ DecrementSteps(here) = Delta(here)
    /\ DecrementEnd(here).value = here.start

\* C7: for lo < hi the root of the tree of Gen::u64(lo..hi) has its value in
\* [lo, hi), and so has every node of its shrink tree; value - range.start
\* never underflows, in a build that checks it either.
C7_RangeContainment ==
    (gen.kind = "u64" /\ gen.start < gen.end /\ tree # NoTree) =>
        /\ IsNode(tree)
        /\ gen.start <= tree.value /\ tree.value < gen.end
        /\ IsNode(here)
        /\ here.start = gen.start /\ here.end = gen.end
        /\ gen.start <= here.value /\ here.value < gen.end
        /\ here.v0 = here.value - gen.start
        /\ Children(here).ok

\* the floor of a range with lo > 0 reached from the top of the range in a
\* build with overflow checks
C7_Witness ==
    /\ debug_build
    /\ gen.kind = "u64"
    /\ gen.start > 0
    /\ tree.kind = "u64"
    /\ tree.value = gen.end - 1
    /\ here.kind = "u64"
    /\ here.value = gen.start
    /\ Len(trail) > 1

\* the Chooser's Random before its n-th call (1-based) when it started from r
RECURSIVE RandBefore(_, _)
RandBefore(r, n) == IF n = 1 THEN r ELSE split(RandBefore(r, n - 1)).self

\* the node the n-th call (1-based) of a run selects in the tree of g
Selected(g, n) ==
    LET sub == GenRun(g, split(RandBefore(started.rand, n)).child, started.size)
    IN  IF n <= Len(started.gen_paths)
        THEN NodeAt(sub, LongestValidPrefix(sub, started.gen_paths[n]))
        ELSE sub

\* C5: the n-th Chooser::of call of a closure run runs the sub-generator with
\* a fresh split of the Chooser's Random and the Chooser's size, selects the
\* node gen_paths[n] resolves to, or the root when there is no n-th path,
\* appends that node's child count as entry n of gen_child_count and returns
\* its value; gen_paths and size never change and gen_child_count has one
\* entry per call made.
C5_ChooserOf ==
    started # NoChooser =>
        /\ chooser.gen_paths = started.gen_paths
        /\ chooser.size = started.size
        /\ Len(chooser.gen_child_count) = Len(calls)
        /\ chooser.rand = RandBefore(started.rand, Len(calls) + 1)
        /\ \A n \in 1 .. Len(calls) :
               /\ calls[n].rand = RandBefore(started.rand, n)
               /\ calls[n].value = Selected(calls[n].gen, n).value
               /\ chooser.gen_child_count[n] =
                      Len(Children(Selected(calls[n].gen, n)).list)

\* a run whose first call follows a path of two valid indices and whose
\* second call has no path and takes the root
C5_Witness ==
    /\ started # NoChooser
    /\ Len(calls) = 2
    /\ Len(started.gen_paths) = 1
    /\ Len(started.gen_paths[1]) = 2
    /\ calls[1].gen.kind = "u64"
    /\ ValidPath(GenRun(calls[1].gen, split(started.rand).child, started.size),
                 started.gen_paths[1])
    /\ chooser.gen_child_count[1] > 0
    /\ chooser.gen_child_count[2] > 0

\* a run whose first call replays a path that leaves the tree it is given
C5_WitnessClosest ==
    /\ started # NoChooser
    /\ Len(calls) >= 1
    /\ Len(started.gen_paths) >= 1
    /\ ~ValidPath(GenRun(calls[1].gen, split(started.rand).child, started.size),
                  started.gen_paths[1])

\* the longest chain of shrinks the call-sites of g allow when every step
\* shrinks one call-site: a value of an integer range goes down at least one
\* per step, and a closure adds up its call-sites
RECURSIVE DepthBound(_)
DepthBound(g) ==
    IF g.kind = "u64" THEN (IF g.end > g.start THEN g.end - g.start - 1 ELSE 0)
    ELSE CASE g.f.fn = "usize"  -> DepthBound(GenU64(g.f.start, g.f.end))
           [] g.f.fn = "choose" -> DepthBound(GenU64(0, Len(g.f.v)))
           [] g.f.fn = "vec"    -> DepthBound(g.f.gen_len)
                                   + DepthBound(g.f.gen_len) * DepthBound(g.f.self)
           [] g.f.fn = "date"   -> DepthBound(GenU64(0, g.f.years))
                                   + DepthBound(GenU64(0, g.f.months))
                                   + DepthBound(GenU64(0, g.f.days))
           [] g.f.fn = "dependent" -> DepthBound(GenU64(0, g.f.end))
                                      + DepthBound(GenU64(0, g.f.end))

\* C8: every tree built by Gen::combine has finite depth, bounded by the
\* shrink chains of the generators its closure extracts from and the number
\* of its call-sites, also when a later range depends on an earlier value:
\* no descent from the root is longer than the call-sites' chains together.
C8_FiniteDepth ==
    IsNode(here) => Len(trail) <= DepthBound(gen)

\* the same bound for the closures whose structure does not depend on the
\* values extracted
C8_FiniteDepthFixedRanges ==
    (IsNode(here) /\ gen \notin DependentGens) => Len(trail) <= DepthBound(gen)

\* a child that repeats its parent: same value, same child counts, and the
\* path of a call-site only grew
C8_RepeatingChild ==
    /\ here.kind = "combine"
    /\ \E i \in DOMAIN Children(here).list :
           LET child == Children(here).list[i]
           IN  /\ child.value = here.value
               /\ child.gen_child_count = here.gen_child_count

\* the lower bound of the range an integer generator draws from
RangeStart(g) == IF g.kind = "u64" THEN g.start ELSE g.f.start

\* the concatenation of a sequence of sequences
RECURSIVE Flatten(_)
Flatten(q) == IF q = << >> THEN << >> ELSE Head(q) \o Flatten(Tail(q))

\* the children values of a vector: the prefixes for the shrinks of its
\* length, then position by position the shrinks of one element
VecChildValues(lenLo, elLo, vec) ==
    LET lens == ShrinkValues(lenLo, Len(vec))
        at(p) == LET els == ShrinkValues(elLo, vec[p])
                 IN  [j \in DOMAIN els |-> [vec EXCEPT ![p] = els[j]]]
    IN  [j \in DOMAIN lens |-> SubSeq(vec, 1, lens[j])]
        \o Flatten([p \in DOMAIN vec |-> at(p)])

IsIntVecGen(g) ==
    /\ g.kind = "combine"
    /\ g.f.fn = "vec"
    /\ (g.f.self.kind = "u64" \/ g.f.self.f.fn = "usize")

\* C9: a node of element_gen.vec(length_gen) over integer generators whose
\* value has length n has as children first one prefix of its vector per
\* shrink of the length, then for each position in order one vector per
\* shrink of that element, equal to the parent's elsewhere; the node [4, 1] of
\* vec(u64(0..5), usize(0..3)) has the children [4], [3, 1], [4, 0].
C9_VecChildren ==
    (IsIntVecGen(gen) /\ IsNode(here)) =>
        /\ Children(here).ok
        /\ ChildValues(here) =
               VecChildValues(RangeStart(gen.f.gen_len), RangeStart(gen.f.self),
                              here.value)
        /\ (here.value = <<4, 1>> /\ gen.f.self = GenU64(0, 5)) =>
               ChildValues(here) = << <<4>>, <<3, 1>>, <<4, 0>> >>

\* the node [4, 1] of vec(u64(0..5), usize(0..3)), reached by shrinking
C9_Witness ==
    /\ gen = GenVec(GenU64(0, 5), GenUsize(0, 3))
    /\ IsNode(here)
    /\ here.value = <<4, 1>>
    /\ trail # << >>

\* the index Gen::choose drew for the root
DrawnIndex == CHOOSE k \in 0 .. Len(gen.f.v) - 1 : gen.f.v[k + 1] = tree.value

\* C10: the tree of Gen::choose(values) has the shape of the integer shrink
\* tree over [0, len(values)) rooted at the drawn index: at every path the
\* value is values[i] for the integer i at that path, with as many children;
\* the children select smaller indices, index 0 has no children and a node
\* without children is values[0].
C10_ChooseIsIndexTree ==
    (gen \in ChooseGens /\ IsNode(here)) =>
        LET ints == shrink_u64(0, Len(gen.f.v), DrawnIndex)
            int == NodeAt(ints, trail)
        IN  /\ ValidPath(ints, trail)
            /\ here.value = gen.f.v[int.value + 1]
            /\ Children(here).ok
            /\ Len(Children(here).list) = Len(Children(int).list)
            /\ \A j \in DOMAIN Children(here).list :
                   \E i \in 0 .. int.value - 1 :
                       Children(here).list[j].value = gen.f.v[i + 1]
            /\ int.value = 0 => Children(here).list = << >>
            /\ Children(here).list = << >> => here.value = gen.f.v[1]

\* a root that drew an index above four, walked down to values[0]
C10_Witness ==
    /\ gen \in ChooseGens
    /\ IsNode(tree)
    /\ DrawnIndex > 4
    /\ Len(Children(tree).list) = 2
    /\ Len(trail) >= 2
    /\ IsNode(here)
    /\ here.value = gen.f.v[1]

\* C11: for every Random state split returns a child that differs from the
\* parent before the split and from the parent after it, because the child's
\* increment is the parent's plus 2 and the parent's is unchanged; every
\* Random reached from new_from_seed by splits has an odd increment.
C11_SplitReturnsDifferentChild ==
    /\ r1.inc % 2 = 1
    /\ \A i \in DOMAIN splits :
           /\ splits[i].ok
           /\ splits[i].child # splits[i].before
           /\ splits[i].child # splits[i].after
           /\ splits[i].child.inc = splits[i].before.inc + 2
           /\ splits[i].after.inc = splits[i].before.inc
           /\ splits[i].child.inc % 2 = 1

\* the same for the splits that return
C11_ReturnedChildDiffers ==
    /\ r1.inc % 2 = 1
    /\ \A i \in DOMAIN splits :
           splits[i].ok =>
               /\ splits[i].child # splits[i].before
               /\ splits[i].child # splits[i].after
               /\ splits[i].child.inc = splits[i].before.inc + 2
               /\ splits[i].after.inc = splits[i].before.inc
               /\ splits[i].child.inc % 2 = 1

\* the first split of a Random fresh from new_from_seed panics
C11_SplitPanics ==
    /\ debug_build
    /\ nest = 0
    /\ Len(splits) = 1
    /\ ~splits[1].ok
    /\ \E seed \in 0 .. MaxSplitSeed : splits[1].before = new_from_seed(seed)

C13_DegenerateRangeIsFatal ==
    (gen \in DegenerateGens /\ tree # NoTree) => IsPanic(tree)

\* the run of Gen::u64 over an empty range returned a tree with the value lo
C13_TreeOfEmptyRange ==
    /\ gen.kind = "u64"
    /\ gen.start = gen.end
    /\ IsNode(tree)
    /\ tree.value = gen.start

\* the run of Gen::u64 over an inverted range returned a tree with a value
\* outside both bounds
C13_TreeOfInvertedRange ==
    /\ gen.kind = "u64"
    /\ gen.start > gen.end
    /\ IsNode(tree)
    /\ (tree.value < gen.end \/ tree.value > gen.start)

\* in a build with debug assertions every such run panics, and Gen::choose
\* of an empty vector panics in every build
C13_FatalWithDebugAssertions ==
    (gen \in DegenerateGens /\ tree # NoTree /\ (debug_build \/ gen = GenChoose(<< >>)))
        => IsPanic(tree)

\* the numbers of options n_1..n_k of the option lists
OptionCounts == [i \in DOMAIN nondets |-> Len(nondets[i].vec) + 1]

RECURSIVE Product(_)
Product(q) == IF q = << >> THEN 1 ELSE Head(q) * Product(Tail(q))

\* the index vector number m (from 0) in lexicographic order, the first
\* position most significant
RECURSIVE IndexVector(_, _)
IndexVector(counts, m) ==
    IF counts = << >> THEN << >>
    ELSE LET k == Len(counts)
         IN  Append(IndexVector(SubSeq(counts, 1, k - 1), m \div counts[k]),
                    m % counts[k])

\* C14: NonDet::combine of a closure making k extractions from NonDets with
\* n_1..n_k options returns n_1 * .. * n_k results, the m-th being the one
\* for the m-th index vector in lexicographic order (first extraction most
\* significant, last fastest), so every combination once, the all-first one
\* first; the loop ends when incr_choice_indices overflows every position.
C14_AllCombinationsInOrder ==
    pc \in {"loop", "done", "panic"} =>
        /\ pc # "panic"
        /\ Len(results) <= Product(OptionCounts)
        /\ \A m \in DOMAIN results :
               results[m] = IndexVector(OptionCounts, m - 1)
        /\ w.num_choices = OptionCounts
        /\ Resize(w.indices, Len(OptionCounts))
               = IndexVector(OptionCounts, Len(results) - 1)
        /\ pc = "done" =>
               /\ Len(results) = Product(OptionCounts)
               /\ \A i \in DOMAIN OptionCounts :
                      Resize(w.indices, Len(OptionCounts))[i] = OptionCounts[i] - 1

\* the run of test::ok has returned its 24 results
C14_Witness ==
    /\ pc = "done"
    /\ nondets = TestOk
    /\ Len(results) = 24
    /\ results[1] = <<0, 0, 0>>
    /\ results[2] = <<0, 0, 1>>
    /\ results[24] = <<3, 2, 1>>

\* the values a closure run extracted at its call-sites, read off its result
SiteValues(f, value) ==
    CASE f.fn = "usize"     -> <<value>>
      [] f.fn = "choose"    -> <<CHOOSE k \in 0 .. Len(f.v) - 1 : f.v[k + 1] = value>>
      [] f.fn = "vec"       -> <<Len(value)>> \o value
      [] f.fn = "date"      -> <<value.year, value.month, value.day>>
      [] f.fn = "dependent" -> value

\* the generator a closure passes at call-site k (1-based) in the run that
\* extracted these values
SiteGen(f, values, k) ==
    CASE f.fn = "usize"     -> GenU64(AsU64(f.start), AsU64(f.end))
      [] f.fn = "choose"    -> GenUsize(0, Len(f.v))
      [] f.fn = "vec"       -> (IF k = 1 THEN f.gen_len ELSE f.self)
      [] f.fn = "date"      -> GenU64(0, <<f.years, f.months, f.days>>[k])
      [] f.fn = "dependent" -> (IF k = 1 THEN GenU64(0, f.end)
                                ELSE GenU64(0, values[1] + 1))

\* the tree call-site k of the run of node t generated, from r, s, k and the
\* generator alone
SiteTree(t, k) ==
    GenRun(SiteGen(t.f, SiteValues(t.f, t.value), k),
           split(RandBefore(t.r, k)).child, t.s)

\* the node of that tree the run of t selected
SiteNode(t, k) ==
    LET sub == SiteTree(t, k)
    IN  NodeAt(sub, LongestValidPrefix(sub, t.paths[k]))

\* in every child of t, got by extending paths[i] by j: the call-sites before
\* i extract what they extracted in t, call-site i extracts the j-th child of
\* the node t selected there, and the later call-sites given the same
\* generator extract what they extracted in t
SitesKeyedByPosition(t) ==
    LET children == Children(t)
        pv == SiteValues(t.f, t.value)
    IN  children.ok =>
            \A c \in DOMAIN children.list :
                LET ij == SiteOf(t.gen_child_count, 1, c - 1)
                    i == ij[1]
                    j == ij[2]
                    cv == SiteValues(t.f, children.list[c].value)
                IN  /\ i <= Len(cv)
                    /\ \A k \in 1 .. i - 1 : cv[k] = pv[k]
                    /\ cv[i] = Children(SiteNode(t, i)).list[j + 1].value
                    /\ \A k \in i + 1 .. Len(cv) :
                           (k <= Len(pv) /\ SiteGen(t.f, cv, k) = SiteGen(t.f, pv, k))
                               => cv[k] = pv[k]

\* C15: randomness is keyed by call-site position, not by shrink paths: the
\* tree at call-site k depends only on r, s, k and the generator passed, so
\* in the child for (i, j) the call-sites before i extract the parent's
\* values, call-site i the value of the j-th child of the node the parent
\* selected there, and later call-sites given the same generator the
\* parent's values.
C15_SitesKeyedByPosition ==
    here.kind = "combine" => SitesKeyedByPosition(here)

\* the same for the closures whose generators do not depend on the values
\* extracted
C15_FixedStructure ==
    (here.kind = "combine" /\ gen \notin DependentGens) => SitesKeyedByPosition(here)

\* a node whose recorded path for a call-site leaves the tree generated there,
\* with a shrink on offer at that call-site
C15_StalePath ==
    /\ here.kind = "combine"
    /\ \E k \in DOMAIN here.gen_child_count :
           /\ here.gen_child_count[k] > 0
           /\ ~ValidPath(SiteTree(here, k), here.paths[k])

\* the arguments r and s of the combine_go invocation that built `started`:
\* those of Gen::combine's closure at the root, those captured by the
\* children closure of here below it
BuildRand == IF tree = NoTree THEN rand ELSE here.r
BuildSize == IF tree = NoTree THEN size ELSE here.s
BuildClosure == IF tree = NoTree THEN gen.f ELSE here.f

\* the paths argument of that invocation: empty at the root, below it the
\* padded paths of here with one entry extended by one of its shrink options
IsBuildPaths(paths) ==
    IF tree = NoTree THEN paths = << >>
    ELSE \E i \in DOMAIN here.gen_child_count :
             \E j \in 0 .. here.gen_child_count[i] - 1 :
                 paths = [here.paths EXCEPT ![i] = Append(@, j)]

\* C16 as stated: every combine_go(f, r, s, paths) constructs its Chooser
\* with a fresh split of r as its random source, with size s, with paths as
\* its input paths and with no output counts.
C16_ChooserFromFreshSplit ==
    [][started' # started =>
           /\ started'.rand = split(BuildRand).child
           /\ started'.size = BuildSize
           /\ IsBuildPaths(started'.gen_paths)
           /\ started'.gen_child_count = << >>]_vars

\* C16, amended: every combine_go(f, r, s, paths) constructs its Chooser with
\* r itself, the Random it was given, as its random source, with size s, with
\* paths as its input paths and with no output counts; the tree it returns
\* has the value and the child counts of the closure run on that Chooser.
C16_ChooserFromR ==
    [][started' # started =>
           /\ started'.rand = BuildRand
           /\ started'.size = BuildSize
           /\ IsBuildPaths(started'.gen_paths)
           /\ started'.gen_child_count = << >>
           /\ LET run == RunClosure(BuildClosure, started')
                  built == combine_go(BuildClosure, BuildRand, BuildSize,
                                      started'.gen_paths)
              IN  IF run.ok
                  THEN /\ built.value = run.value
                       /\ built.gen_child_count = run.c.gen_child_count
                  ELSE IsPanic(built)]_vars

\* the Chooser of a child below the root, built for a shrink of a later
\* call-site of a node that was itself reached by shrinking
C16_Witness ==
    /\ started # NoChooser
    /\ IsNode(here)
    /\ trail # << >>
    /\ Len(started.gen_paths) >= 2
    /\ started.gen_paths[1] # << >>
    /\ started.gen_paths[2] # << >>
    /\ started.rand = here.r
    /\ calls = << >>

\* C17: the children closure of combine_go never indexes the path list out of
\* bounds: the padded paths have an entry for every recorded call-site,
\* whether the incoming list was shorter (padded with empty paths) or longer
\* (stale trailing entries, kept unchanged and passed on to the children).
C17_PathsCoverCallSites ==
    here.kind = "combine" =>
        LET counts == here.gen_child_count
            children == Children(here)
        IN  /\ Len(here.paths) >= Len(counts)
            /\ \A gen_ix \in 0 .. Len(counts) - 1 : gen_ix + 1 \in DOMAIN here.paths
            /\ here = tree => here.paths = [k \in DOMAIN counts |-> EmptyPath]
            /\ \A c \in DOMAIN children.list :
                   /\ ~IsPanic(children.list[c])
                   /\ Len(children.list[c].paths) >= Len(here.paths)
                   /\ \A k \in DOMAIN here.paths :
                          k > Len(counts) =>
                              children.list[c].paths[k] = here.paths[k]

\* a node built from a paths list longer than its run has call-sites, with
\* children built from that list
C17_Witness ==
    /\ here.kind = "combine"
    /\ Len(here.paths) > Len(here.gen_child_count)
    /\ here.paths[Len(here.paths)] # EmptyPath
    /\ Children(here).list # << >>
====
